---- MODULE Spec2Model ----
(***************************************************************************)
(* A model of src/trainer.py: the Trainer of a GAN-BERT style              *)
(* semi-supervised training loop.  The Trainer's state (the three models'  *)
(* parameters and modes, the two optimizers, the gradients, the artifact   *)
(* directory) and its operations (train, train_epoch, train_step,          *)
(* val_epoch, val_step, _compute_metrics, save_model) are modelled.        *)
(*                                                                         *)
(* Numbers.  Losses are floating point in the source; here they are exact  *)
(* rationals <<n, d>> in lowest terms (d > 0), and the two transcendental  *)
(* functions (log, log_softmax) are fixed-point tables in tenths of a bit. *)
(* The encoder, generator and discriminator are external modules: they are *)
(* deterministic stand-ins of their inputs and of the current parameters.  *)
(***************************************************************************)
EXTENDS Integers, Sequences, FiniteSets, TLC

(* ------------------------------ bounds -------------------------------- *)

\* size of the corpus that is split into the training and validation sets
MaxData == 3

\* largest argument `epochs` of train()
MaxEpochs == 2

(* --------------------------- configuration ---------------------------- *)

\* config.train_batch_size and config.val_batch_size
train_batch_size == 2

val_batch_size == 2

\* config.label_list: the C real classes; the discriminator has C+1 columns
label_list == <<"neg", "pos">>

NumLabels == Len(label_list)

Labels == 0 .. (NumLabels - 1)

\* token ids of the examples (one text only: the examples differ in their
\* label and label_mask)
InputIds == {1}

\* seeds of the global random number generator
Seeds == {0, 1}

Models == {"encoder", "generator", "discriminator"}

Losses == {"generator_loss", "discriminator_loss"}

(* ---------------------------- arithmetic ------------------------------ *)

Abs(x) == IF x < 0 THEN -x ELSE x

RECURSIVE Gcd(_, _)
Gcd(a, b) == IF b = 0 THEN a ELSE Gcd(b, a % b)

Sign(n) == IF n > 0 THEN 1 ELSE IF n < 0 THEN -1 ELSE 0

\* the rational n/d in lowest terms with a positive denominator; a division
\* by zero of a float gives inf, -inf or nan: <<1, 0>>, <<-1, 0>>, <<0, 0>>
Rat(n, d) ==
    IF d = 0 THEN <<Sign(n), 0>>
    ELSE LET g == Gcd(Abs(n), Abs(d))
             s == IF d < 0 THEN -1 ELSE 1
         IN  <<(s * n) \div g, (s * d) \div g>>

RInt(n) == <<n, 1>>

RAdd(x, y) == Rat(x[1] * y[2] + y[1] * x[2], x[2] * y[2])

RNeg(x) == <<-x[1], x[2]>>

RSub(x, y) == RAdd(x, RNeg(y))

RMul(x, y) == Rat(x[1] * y[1], x[2] * y[2])

\* x / n for an integer n
RDiv(x, n) == Rat(x[1], x[2] * n)

RECURSIVE SumSeq(_)
SumSeq(s) == IF s = <<>> THEN 0 ELSE Head(s) + SumSeq(Tail(s))

\* torch.mean of a nonempty vector of integers
Mean(s) == Rat(SumSeq(s), Len(s))

RECURSIVE Pow2(_)
Pow2(n) == IF n = 0 THEN 1 ELSE 2 * Pow2(n - 1)

\* 10 * log2(n), rounded, for the arguments the model meets
Log2x10(n) ==
    CASE n = 1 -> 0  [] n = 2 -> 10 [] n = 3 -> 16 [] n = 4 -> 20
      [] n = 5 -> 23 [] n = 6 -> 26 [] n = 7 -> 28 [] n = 8 -> 30
      [] n = 9 -> 32 [] n = 10 -> 33 [] n = 11 -> 35 [] n = 12 -> 36

\* probabilities are in quarters; torch.log(q/4 + config.epsilon) in tenths
\* of a bit: epsilon only shows at q = 0, where the result is log(epsilon)
\* (a large finite negative number) instead of -infinity
LogEps(q) == IF q = 0 THEN -266 ELSE Log2x10(q) - 20

(* ------------------------------- data --------------------------------- *)

\* one example of a Dataset: batch[0] (input_ids; the attention mask batch[1]
\* goes with it), batch[2] (label) and batch[3] (label_mask)
Examples ==
    [input_ids : InputIds, label : Labels, label_mask : BOOLEAN]

RECURSIVE SeqsUpTo(_, _)
SeqsUpTo(S, n) ==
    IF n = 0 THEN {<<>>}
    ELSE LET shorter == SeqsUpTo(S, n - 1)
         IN  shorter \cup {Append(s, x) : s \in {t \in shorter : Len(t) = n - 1}, x \in S}

Min(a, b) == IF a < b THEN a ELSE b

\* variant: a loader built with drop_last=True, which leaves out a smaller
\* last batch
RECURSIVE DataLoaderDropLast(_, _)
DataLoaderDropLast(dataset, batch_size) ==
    IF Len(dataset) < batch_size THEN <<>>
    ELSE <<SubSeq(dataset, 1, batch_size)>>
           \o DataLoaderDropLast(SubSeq(dataset, batch_size + 1, Len(dataset)),
                                 batch_size)

\* torch.utils.data.DataLoader(dataset, batch_size=n), no sampler, drop_last
\* left False: the batches in dataset order, the last one possibly smaller
RECURSIVE DataLoader(_, _)
DataLoader(dataset, batch_size) ==
    IF dataset = <<>> THEN <<>>
    ELSE LET k == Min(batch_size, Len(dataset))
         IN  <<SubSeq(dataset, 1, k)>>
               \o DataLoader(SubSeq(dataset, k + 1, Len(dataset)), batch_size)

\* variant: the number of full batches only
LoaderLenFloor(dataset, batch_size) == Len(dataset) \div batch_size

\* len(dataloader): ceil(len(dataset) / batch_size)
LoaderLen(dataset, batch_size) ==
    (Len(dataset) + batch_size - 1) \div batch_size

(* ------------------------ the external modules ------------------------- *)

\* the global random number generator: one draw advances the state
RngNext(r) == (3 * r + 1) % 7

\* _generate_noise(batch_size): batch_size rows (generator_noise_size = 1)
\* drawn from the generator state r; <<rows, new state>>
RECURSIVE _generate_noise(_, _)
_generate_noise(batch_size, r) ==
    IF batch_size = 0 THEN <<<<>>, r>>
    ELSE LET rest == _generate_noise(batch_size - 1, RngNext(r))
         IN  <<<<r % 2>> \o rest[1], rest[2]>>

\* self.encoder(ids, attention_mask)['last_hidden_state'][:, 0, :]: row i of
\* the output belongs to example i of the batch
encoder(b, theta) ==
    [i \in 1 .. Len(b) |->
        [origin |-> <<"encoder", i>>, h |-> (b[i].input_ids + theta) % 3]]

\* self.generator(noise): row i of the output belongs to noise row i
generator(noise, theta) ==
    [i \in 1 .. Len(noise) |->
        [origin |-> <<"generator", i>>, h |-> (noise[i] + 2 * theta) % 3]]

\* self.discriminator(rows) -> (features, logits, probs), kept row by row:
\* output row i belongs to input row i.  logits and probs have C+1 columns,
\* the last one being the fake class; probs are in quarters.
discriminator(rows, theta) ==
    [i \in 1 .. Len(rows) |->
        LET x == rows[i].h + theta
            q == (2 * x + 1) % 5
        IN  [origin   |-> rows[i].origin,
             features |-> x % 3,
             logits   |-> [c \in 1 .. (NumLabels + 1) |-> (x + c * (theta + 1)) % 3],
             probs    |-> [c \in 1 .. (NumLabels + 1) |->
                             IF c = NumLabels + 1 THEN q
                             ELSE IF c = 1 THEN 4 - q ELSE 0]]]

(* ------------------------- tensor operations -------------------------- *)

\* variant: the generator's rows first
CatReversed(a, b) == b \o a

\* torch.cat([a, b], dim=0)
cat(a, b) == a \o b

\* torch.split(t, split_size): chunks of split_size rows, the last smaller
RECURSIVE split(_, _)
split(t, split_size) ==
    IF Len(t) = 0 THEN <<>>
    ELSE LET k == Min(split_size, Len(t))
         IN  <<SubSeq(t, 1, k)>> \o split(SubSeq(t, k + 1, Len(t)), split_size)

\* t[:, -1] of a field of the rows
LastColumn(t, field) == [i \in 1 .. Len(t) |-> t[i][field][NumLabels + 1]]

\* F.log_softmax(logits[:, :-1], dim=-1) of one row, in tenths of a bit
log_softmax(logits) ==
    LET z == SumSeq([c \in 1 .. NumLabels |-> Pow2(logits[c])])
    IN  [c \in 1 .. NumLabels |-> 10 * logits[c] - Log2x10(z)]

\* torch.nn.functional.one_hot(label, num_classes)
one_hot(label, num_classes) ==
    [c \in 1 .. num_classes |-> IF c = label + 1 THEN 1 ELSE 0]

\* -torch.sum(label2one_hot * log_probs, dim=-1), per example
single_example_loss(logits_rows, labels) ==
    [i \in 1 .. Len(logits_rows) |->
        LET lp == log_softmax(logits_rows[i])
            oh == one_hot(labels[i], Len(label_list))
        IN  -SumSeq([c \in 1 .. NumLabels |-> oh[c] * lp[c]])]

\* variant: no selection, every example kept
MaskedSelectAll(values, mask) == values

\* torch.masked_select(values, mask)
RECURSIVE masked_select(_, _)
masked_select(values, mask) ==
    IF values = <<>> THEN <<>>
    ELSE (IF Head(mask) THEN <<Head(values)>> ELSE <<>>)
           \o masked_select(Tail(values), Tail(mask))

\* dl_supervised: 0 when nothing is selected, else sum / count
dl_supervised(selected_single_example_loss) ==
    LET labeled_example_count == Len(selected_single_example_loss)
    IN  IF labeled_example_count = 0 THEN RInt(0)
        ELSE RDiv(RInt(SumSeq(selected_single_example_loss)), labeled_example_count)

\* torch.max(filtered_logits, 1)[1] of one row: the first maximal column,
\* as a class index from 0
ArgMax(logits) ==
    LET best == CHOOSE c \in 1 .. NumLabels :
                   /\ \A d \in 1 .. NumLabels : logits[d] <= logits[c]
                   /\ \A d \in 1 .. (c - 1) : logits[d] < logits[c]
    IN  best - 1

(* ------------------- optimizers, gradients, autograd ------------------- *)

Optimizers == {"generator_optimizer", "discriminator_optimizer"}

\* variant: the generator's optimizer built over every model's parameters
OptimizerParamsShared(opt) ==
    IF opt = "discriminator_optimizer" THEN {"encoder", "discriminator"}
    ELSE {"encoder", "generator", "discriminator"}

\* configure_optimizer: the parameters each optimizer owns
OptimizerParams(opt) ==
    IF opt = "discriminator_optimizer" THEN {"encoder", "discriminator"}
    ELSE {"generator"}

\* The computation graph train_step builds: what each value is computed
\* from.  The leaves are the three models' parameters.  `labeled` tells
\* whether dl_supervised is a tensor (some example is labeled) or the int 0.
GraphInputs(t, labeled) ==
    CASE t = "hidden_states" -> {"encoder"}
      [] t = "generator_representation" -> {"generator"}
      [] t = "disciminator_input" -> {"hidden_states", "generator_representation"}
      [] t \in {"features", "logits", "probs"} -> {"discriminator", "disciminator_input"}
      [] t \in {"dis_real_features", "dis_fake_features"} -> {"features"}
      [] t \in {"dis_real_logits", "dis_fake_logits"} -> {"logits"}
      [] t \in {"dis_real_probs", "dis_fake_probs"} -> {"probs"}
      [] t = "generator_loss" ->
             {"dis_fake_probs", "dis_real_features", "dis_fake_features"}
      [] t = "log_probs" -> {"dis_real_logits"}
      [] t = "single_example_loss" -> {"log_probs"}
      [] t = "selected_single_example_loss" -> {"single_example_loss"}
      [] t = "dl_supervised" ->
             IF labeled THEN {"selected_single_example_loss"} ELSE {}
      [] t = "dl_unsupervised1u" -> {"dis_real_probs"}
      [] t = "dl_unsupervised2u" -> {"dis_fake_probs"}
      [] t = "discriminator_loss" ->
             {"dl_supervised", "dl_unsupervised1u", "dl_unsupervised2u"}
      [] OTHER -> {}

\* the models whose parameters a backward pass from t reaches
RECURSIVE GraphLeaves(_, _)
GraphLeaves(t, labeled) ==
    IF t \in Models THEN {t}
    ELSE UNION {GraphLeaves(u, labeled) : u \in GraphInputs(t, labeled)}

NoGrad == [l \in Losses |-> 0]

Call(op, on) == [op |-> op, on |-> on, retain_graph |-> FALSE]

Backward(loss, retain_graph) ==
    [op |-> "backward", on |-> loss, retain_graph |-> retain_graph]

\* The state the calls of a step act on: the parameters (a counter of the
\* updates applied), the modes, the gradients (per model, how many backward
\* passes of each loss have accumulated since the last zero_grad), the
\* optimizers' step counts, whether a graph is there to run backward on, the
\* log of the calls made (each with the gradients and parameters it found),
\* and whether a call has raised.
Machine(p, t, g, o, graph) ==
    [params |-> p, training |-> t, grad |-> g, optim |-> o,
     graph |-> graph, labeled |-> FALSE, calls |-> <<>>, ok |-> TRUE]

HasGrad(g, models) == \E mo \in models : g[mo] # NoGrad

\* one call, on machine m
Exec(m, c) ==
    LET logged == [m EXCEPT !.calls =
                      Append(@, [call |-> c, grad |-> m.grad, params |-> m.params])]
    IN
    CASE ~m.ok -> m
      [] c.op = "train" -> [logged EXCEPT !.training[c.on] = TRUE]
      [] c.op = "eval" -> [logged EXCEPT !.training[c.on] = FALSE]
      [] c.op = "forward" -> logged
      [] c.op = "zero_grad" ->
             [logged EXCEPT !.grad =
                 [mo \in Models |->
                     IF mo \in OptimizerParams(c.on) THEN NoGrad ELSE m.grad[mo]]]
      [] c.op = "backward" ->
             IF ~m.graph THEN [m EXCEPT !.ok = FALSE]
             ELSE [logged EXCEPT
                      !.grad = [mo \in Models |->
                                   IF mo \in GraphLeaves(c.on, m.labeled)
                                   THEN [m.grad[mo] EXCEPT ![c.on] = @ + 1]
                                   ELSE m.grad[mo]],
                      !.graph = c.retain_graph]
      [] c.op = "step" ->
             [logged EXCEPT
                 !.params = [mo \in Models |->
                                IF mo \in OptimizerParams(c.on) /\ m.grad[mo] # NoGrad
                                THEN m.params[mo] + 1 ELSE m.params[mo]],
                 !.optim[c.on] =
                     IF HasGrad(m.grad, OptimizerParams(c.on)) THEN @ + 1 ELSE @]

\* the calls cs in order; the call after the first `raises` ones raises
\* before it acts (raises = Len(cs): none is made to raise)
RECURSIVE Run(_, _, _)
Run(m, cs, raises) ==
    IF cs = <<>> \/ ~m.ok THEN m
    ELSE IF raises = 0 THEN [m EXCEPT !.ok = FALSE]
    ELSE Run(Exec(m, Head(cs)), Tail(cs), raises - 1)

(* ----------------------------- train_step ----------------------------- *)

\* the calls train_step makes on the models before the losses are composed
TrainForwardCalls ==
    << Call("train", "encoder"), Call("train", "generator"),
       Call("train", "discriminator"),
       Call("forward", "encoder"), Call("forward", "generator"),
       Call("forward", "discriminator") >>

\* variant: each optimizer stepped right after its own loss's backward pass
OptimizerCallsStepEarly ==
    << [op |-> "zero_grad", on |-> "generator_optimizer", retain_graph |-> FALSE],
       [op |-> "zero_grad", on |-> "discriminator_optimizer", retain_graph |-> FALSE],
       [op |-> "backward", on |-> "generator_loss", retain_graph |-> TRUE],
       [op |-> "step", on |-> "generator_optimizer", retain_graph |-> FALSE],
       [op |-> "backward", on |-> "discriminator_loss", retain_graph |-> FALSE],
       [op |-> "step", on |-> "discriminator_optimizer", retain_graph |-> FALSE] >>

\* the calls train_step makes on the losses and the two optimizers
OptimizerCalls ==
    << Call("zero_grad", "generator_optimizer"),
       Call("zero_grad", "discriminator_optimizer"),
       Backward("generator_loss", TRUE),
       Backward("discriminator_loss", FALSE),
       Call("step", "generator_optimizer"),
       Call("step", "discriminator_optimizer") >>

\* the forward pass: encoder, noise, generator, one discriminator run on the
\* concatenation, and the split of its output at real_batch_size
TrainForward(batch, p, r) ==
    LET real_batch_size == Len(batch)
        hidden_states == encoder(batch, p["encoder"])
        drawn == _generate_noise(real_batch_size, r)
        generator_representation == generator(drawn[1], p["generator"])
        disciminator_input == cat(hidden_states, generator_representation)
        output == discriminator(disciminator_input, p["discriminator"])
    IN  [rng |-> drawn[2],
         disciminator_input |-> disciminator_input,
         chunks |-> split(output, real_batch_size)]

\* generator_loss and discriminator_loss from the two parts of the output
TrainLosses(batch, dis_real, dis_fake) ==
    LET B == Len(dis_real)
        F == Len(dis_fake)
        fake_p == LastColumn(dis_fake, "probs")
        real_p == LastColumn(dis_real, "probs")
        feature_gap == RSub(Mean([i \in 1 .. B |-> dis_real[i].features]),
                            Mean([i \in 1 .. F |-> dis_fake[i].features]))
        generator_loss ==
            RAdd(RNeg(Mean([i \in 1 .. F |-> LogEps(4 - fake_p[i])])),
                 RMul(feature_gap, feature_gap))
        per_example ==
            single_example_loss([i \in 1 .. B |-> dis_real[i].logits],
                                [i \in 1 .. Len(batch) |-> batch[i].label])
        selected ==
            masked_select(per_example,
                          [i \in 1 .. Len(batch) |-> batch[i].label_mask])
        supervised == dl_supervised(selected)
        dl_unsupervised1u == RNeg(Mean([i \in 1 .. B |-> LogEps(4 - real_p[i])]))
        dl_unsupervised2u == RNeg(Mean([i \in 1 .. F |-> LogEps(fake_p[i])]))
    IN  [single_example_loss |-> per_example,
         selected_single_example_loss |-> selected,
         dl_supervised |-> supervised,
         generator_loss |-> generator_loss,
         discriminator_loss |->
             RAdd(RAdd(supervised, dl_unsupervised1u), dl_unsupervised2u)]

NoValue == [none |-> TRUE]

\* train_step(batch) on machine m with generator state r.  `raises` is the
\* number of calls that complete before one raises (all of them: none does).
\* The result: the machine after the calls, the generator state, the local
\* values, and the returned dict (NoValue when the step raised).
train_step(batch, m, r, raises) ==
    LET fw == TrainForward(batch, m.params, r)
        \* the unpacking of torch.split's result into two names raises
        \* unless there are exactly two chunks
        unpacked == Len(fw.chunks) = 2
        stop == IF unpacked THEN raises ELSE Min(raises, Len(TrainForwardCalls))
        losses == IF unpacked
                  THEN TrainLosses(batch, fw.chunks[1], fw.chunks[2])
                  ELSE NoValue
        labeled == unpacked /\ losses.selected_single_example_loss # <<>>
        after == Run([m EXCEPT !.labeled = labeled],
                     TrainForwardCalls \o OptimizerCalls, stop)
    IN  [m |-> after,
         \* the noise is drawn once the encoder has returned
         rng |-> IF stop >= 4 THEN fw.rng ELSE r,
         locals |-> IF stop >= Len(TrainForwardCalls)
                    THEN [batch |-> batch,
                          disciminator_input |-> fw.disciminator_input,
                          chunks |-> fw.chunks,
                          losses |-> losses]
                    ELSE NoValue,
         returned |-> IF after.ok
                      THEN [generator_loss |-> losses.generator_loss,
                            discriminator_loss |-> losses.discriminator_loss]
                      ELSE NoValue]

(* ------------------------------ val_step ------------------------------ *)

\* variant: a validation step that also steps the discriminator's optimizer
ValStepCallsStepping ==
    << [op |-> "eval", on |-> "encoder", retain_graph |-> FALSE],
       [op |-> "eval", on |-> "discriminator", retain_graph |-> FALSE],
       [op |-> "eval", on |-> "generator", retain_graph |-> FALSE],
       [op |-> "forward", on |-> "encoder", retain_graph |-> FALSE],
       [op |-> "forward", on |-> "discriminator", retain_graph |-> FALSE],
       [op |-> "step", on |-> "discriminator_optimizer", retain_graph |-> FALSE] >>

\* the calls val_step makes: the three models to evaluation mode, then the
\* encoder and the discriminator under torch.no_grad()
ValStepCalls ==
    << Call("eval", "encoder"), Call("eval", "discriminator"),
       Call("eval", "generator"),
       Call("forward", "encoder"), Call("forward", "discriminator") >>

\* self.negative_log_likelihood_loss: CrossEntropyLoss, the mean over the
\* batch of the per-example negative log-likelihood
negative_log_likelihood_loss(logits_rows, labels) ==
    Mean(single_example_loss(logits_rows, labels))

\* val_step(batch) (inference_mode left False, as val_epoch calls it)
val_step(batch, m, raises) ==
    LET hidden_states == encoder(batch, m.params["encoder"])
        output == discriminator(hidden_states, m.params["discriminator"])
        B == Len(batch)
        b_labels == [i \in 1 .. B |-> batch[i].label]
        filtered_logits ==
            [i \in 1 .. B |-> [c \in 1 .. NumLabels |-> output[i].logits[c]]]
        \* under no_grad no graph is built
        after == Run([m EXCEPT !.graph = FALSE], ValStepCalls, raises)
    IN  [m |-> after,
         returned |->
             IF after.ok
             THEN [validation_loss |->
                       negative_log_likelihood_loss(filtered_logits, b_labels),
                   predictions |-> [i \in 1 .. B |-> ArgMax(filtered_logits[i])],
                   ground_truths |-> b_labels,
                   probs |-> [i \in 1 .. B |-> output[i].probs]]
             ELSE NoValue]

(* -------------------------- _compute_metrics -------------------------- *)

\* variant: the positions that differ are counted
ComputeMetricsMismatches(predictions, ground_truths) ==
    Rat(Cardinality({i \in 1 .. Len(predictions) :
                        predictions[i] # ground_truths[i]}),
        Len(predictions))

\* np.sum(predictions == ground_truths) / len(predictions)
_compute_metrics(predictions, ground_truths) ==
    Rat(Cardinality({i \in 1 .. Len(predictions) :
                        predictions[i] = ground_truths[i]}),
        Len(predictions))

(* ------------------------------ save_model ----------------------------- *)

Digit(d) ==
    CASE d = 0 -> "0" [] d = 1 -> "1" [] d = 2 -> "2" [] d = 3 -> "3"
      [] d = 4 -> "4" [] d = 5 -> "5" [] d = 6 -> "6" [] d = 7 -> "7"
      [] d = 8 -> "8" [] d = 9 -> "9"

\* str(n) of a natural number, one string per character
RECURSIVE Str(_)
Str(n) == IF n < 10 THEN <<Digit(n)>> ELSE Str(n \div 10) \o <<Digit(n % 10)>>

\* variant: a name made of the validation loss alone
SavingPathNoEpoch(ep, val_loss) ==
    <<"artifact_path", "/", "epoch_", "_", val_loss, ".pt">>

\* f"{self.artifact_path}/epoch_{epoch}_{val_loss}.pt", piece by piece; the
\* formatted val_loss dict is one piece
saving_path(ep, val_loss) ==
    <<"artifact_path", "/", "epoch_">> \o Str(ep) \o <<"_", val_loss, ".pt">>

\* the dict save_model hands to torch.save
Checkpoint(ep, p, o, train_loss, val_loss) ==
    [complete |-> TRUE,
     epoch |-> ep,
     encoder |-> p["encoder"],
     generator |-> p["generator"],
     discriminator |-> p["discriminator"],
     generator_optim |-> o["generator_optimizer"],
     discriminator_optim |-> o["discriminator_optimizer"],
     train_loss |-> train_loss,
     val_los |-> val_loss]

\* what a torch.save that raised midway leaves at the path
Truncated == [complete |-> FALSE]

\* the directory fs with `content` written at `path`
WriteFile(fs, path, content) ==
    [f \in DOMAIN fs \cup {path} |-> IF f = path THEN content ELSE fs[f]]

(* ------------------------------- state -------------------------------- *)

VARIABLES
    train_data,   \* the dataset behind self.train_loader
    val_data,     \* the dataset behind self.val_loader
    rng,          \* the global random number generator's state
    params,       \* per model, the number of updates its parameters have had
    training,     \* per model, its training flag (train() / eval())
    grad,         \* per model, the gradient accumulated on its parameters
    optim,        \* per optimizer, its step count
    files,        \* the artifact directory: path -> content
    pc,           \* where the Trainer is
    caller,       \* who runs the current epoch: train() or a direct call
    epochs,       \* train()'s argument
    epoch,        \* train()'s loop variable
    step,         \* batches of the current loader already iterated
    mode,         \* val_epoch's argument
    te,           \* train_epoch's accumulators
    ve,           \* val_epoch's accumulators
    tr,           \* train()'s train_loss and val_loss
    result,       \* what the last direct call returned
    calls,        \* the calls of the last train_step or val_step
    locals,       \* the local values of the last train_step
    returned,     \* what each step of the current epoch returned
    trace,        \* what train() has called so far
    failure       \* the call that raised

vars == <<train_data, val_data, rng, params, training, grad, optim, files, pc,
          caller, epochs, epoch, step, mode, te, ve, tr, result, calls, locals,
          returned, trace, failure>>

data == <<train_data, val_data>>

models == <<params, training, grad, optim>>

train_loader == DataLoader(train_data, train_batch_size)

val_loader == DataLoader(val_data, val_batch_size)

\* train_epoch line 99 and val_epoch line 174: the accumulators at entry
TrainEpochEntry == [generator_loss |-> RInt(0), discriminator_loss |-> RInt(0)]

ValEpochEntry ==
    [validation_loss |-> RInt(0), predictions |-> <<>>,
     ground_truths |-> <<>>, probs |-> <<>>]

Init ==
    /\ \E corpus \in SeqsUpTo(Examples, MaxData) :
          \E k \in 0 .. Len(corpus) :
             /\ train_data = SubSeq(corpus, 1, k)
             /\ val_data = SubSeq(corpus, k + 1, Len(corpus))
    /\ rng \in Seeds
    /\ params = [mo \in Models |-> 0]
    /\ training = [mo \in Models |-> TRUE]
    /\ grad = [mo \in Models |-> NoGrad]
    /\ optim = [o \in Optimizers |-> 0]
    /\ files = <<>>
    /\ pc = "idle"
    /\ caller = "none"
    /\ epochs = 0
    /\ epoch = 0
    /\ step = 0
    /\ mode = "training"
    /\ te = TrainEpochEntry
    /\ ve = ValEpochEntry
    /\ tr = [train_loss |-> NoValue, val_loss |-> NoValue]
    /\ result = NoValue
    /\ calls = <<>>
    /\ locals = NoValue
    /\ returned = [train |-> <<>>, val |-> <<>>]
    /\ trace = <<>>
    /\ failure = NoValue

(* ------------------------------ epochs -------------------------------- *)

\* `predictions += _predictions`: a list extended by a tensor takes one
\* entry per row of the tensor
Extend(list, tensor) == list \o tensor

\* train_epoch's return value
TrainEpochResult(acc, dataset) ==
    LET n == LoaderLen(dataset, train_batch_size)
    IN  [generator_loss |-> RDiv(acc.generator_loss, n),
         discriminator_loss |-> RDiv(acc.discriminator_loss, n)]

\* val_epoch after its loop: the stacked arrays, the mean loss, the accuracy
\* and the returned dict
ValEpochResult(acc, dataset, md) ==
    LET predictions == acc.predictions
        ground_truths == acc.ground_truths
        validation_loss ==
            RDiv(acc.validation_loss, LoaderLen(dataset, val_batch_size))
        returnable ==
            [validation_accuracy |-> _compute_metrics(predictions, ground_truths),
             validation_loss |-> validation_loss]
    IN  IF md = "inference"
        THEN [validation_accuracy |-> returnable.validation_accuracy,
              validation_loss |-> returnable.validation_loss,
              predictions |-> predictions,
              ground_truths |-> ground_truths,
              probs |-> acc.probs]
        ELSE returnable

(* ------------------------------ actions ------------------------------- *)

\* an entry of train()'s trace: a call that returned, its epoch, its value
\* (save_model: the path written)
Event(call, ep, value) == [call |-> call, epoch |-> ep, value |-> value]

\* variant: the exception caught and recorded where it is raised, the loop
\* going on
RaiseSwallowed(where) ==
    /\ pc' = pc
    /\ failure' = [in |-> where, caller |-> caller, epoch |-> epoch]

\* an exception: nothing in the Trainer catches one, so it leaves the
\* running call whatever its depth
Raise(where) ==
    /\ pc' = "failed"
    /\ failure' = [in |-> where, caller |-> caller, epoch |-> epoch]

\* train(epochs=n): the loop is entered at its first train_epoch
CallTrain(n) ==
    /\ pc = "idle"
    /\ caller' = "train"
    /\ epochs' = n
    /\ epoch' = 0
    /\ step' = 0
    /\ te' = TrainEpochEntry
    /\ returned' = [train |-> <<>>, val |-> <<>>]
    /\ tr' = [train_loss |-> NoValue, val_loss |-> NoValue]
    /\ result' = NoValue
    /\ trace' = <<>>
    /\ pc' = IF n = 0 THEN "done" ELSE "train_epoch"
    /\ UNCHANGED <<data, rng, models, files, mode, ve, calls, locals, failure>>

\* val_epoch(self.val_loader, mode=md), called directly
CallValEpoch(md) ==
    /\ pc = "idle"
    /\ caller' = "api"
    /\ mode' = md
    /\ step' = 0
    /\ ve' = ValEpochEntry
    /\ returned' = [returned EXCEPT !.val = <<>>]
    /\ result' = NoValue
    /\ pc' = "val_epoch"
    /\ UNCHANGED <<data, rng, models, files, epochs, epoch, te, tr, calls,
                   locals, trace, failure>>

\* one iteration of train_epoch's loop: train_step on the next batch, then
\* the two accumulations
TrainStep(raises) ==
    /\ pc = "train_epoch"
    /\ step < Len(train_loader)
    /\ \E s \in {train_step(train_loader[step + 1],
                           Machine(params, training, grad, optim, TRUE),
                           rng, raises)} :
           /\ params' = s.m.params
           /\ training' = s.m.training
           /\ grad' = s.m.grad
           /\ optim' = s.m.optim
           /\ rng' = s.rng
           /\ calls' = s.m.calls
           /\ locals' = s.locals
           /\ IF s.m.ok
              THEN /\ te' = [generator_loss |->
                                RAdd(te.generator_loss, s.returned.generator_loss),
                            discriminator_loss |->
                                RAdd(te.discriminator_loss,
                                     s.returned.discriminator_loss)]
                   /\ returned' = [returned EXCEPT !.train = Append(@, s.returned)]
                   /\ step' = step + 1
                   /\ UNCHANGED <<pc, failure>>
              ELSE /\ Raise("train_step")
                   /\ UNCHANGED <<te, returned, step>>
    /\ UNCHANGED <<data, files, caller, epochs, epoch, mode, ve, tr, result, trace>>

\* train_epoch's return, and train()'s call of val_epoch that follows it
TrainEpochReturn ==
    /\ pc = "train_epoch"
    /\ step = Len(train_loader)
    /\ IF step = 0 /\ LoaderLen(train_data, train_batch_size) = 0
       THEN \* the accumulators are still the int 0: 0 / 0 on Python ints
            \* is a ZeroDivisionError
            /\ Raise("train_epoch")
            /\ UNCHANGED <<tr, trace, step, mode, ve, returned>>
       ELSE /\ tr' = [tr EXCEPT !.train_loss = TrainEpochResult(te, train_data)]
            /\ trace' = Append(trace, Event("train_epoch", epoch, tr'.train_loss))
            /\ pc' = "val_epoch"
            /\ step' = 0
            /\ mode' = "training"
            /\ ve' = ValEpochEntry
            /\ returned' = [returned EXCEPT !.val = <<>>]
            /\ UNCHANGED failure
    /\ UNCHANGED <<data, rng, models, files, caller, epochs, epoch, te, result,
                   calls, locals>>

\* one iteration of val_epoch's loop: val_step on the next batch, then the
\* four accumulations
ValStep(raises) ==
    /\ pc = "val_epoch"
    /\ step < Len(val_loader)
    /\ \E s \in {val_step(val_loader[step + 1],
                         Machine(params, training, grad, optim, FALSE), raises)} :
           /\ params' = s.m.params
           /\ training' = s.m.training
           /\ grad' = s.m.grad
           /\ optim' = s.m.optim
           /\ calls' = s.m.calls
           /\ IF s.m.ok
              THEN /\ ve' = [validation_loss |->
                                RAdd(ve.validation_loss, s.returned.validation_loss),
                            predictions |->
                                Extend(ve.predictions, s.returned.predictions),
                            ground_truths |->
                                Extend(ve.ground_truths, s.returned.ground_truths),
                            probs |-> Extend(ve.probs, s.returned.probs)]
                   /\ returned' = [returned EXCEPT !.val = Append(@, s.returned)]
                   /\ step' = step + 1
                   /\ UNCHANGED <<pc, failure>>
              ELSE /\ Raise("val_step")
                   /\ UNCHANGED <<ve, returned, step>>
    /\ UNCHANGED <<data, rng, files, caller, epochs, epoch, mode, te, tr, result,
                   locals, trace>>

\* val_epoch after its loop, and the return to its caller
ValEpochReturn ==
    /\ pc = "val_epoch"
    /\ step = Len(val_loader)
    /\ IF ve.predictions = <<>>
       THEN \* torch.stack of an empty list: RuntimeError
            /\ Raise("val_epoch")
            /\ UNCHANGED <<tr, trace, result>>
       ELSE LET returnable == ValEpochResult(ve, val_data, mode)
            IN  /\ UNCHANGED failure
                /\ IF caller = "train"
                   THEN /\ tr' = [tr EXCEPT !.val_loss = returnable]
                        /\ trace' = Append(trace, Event("val_epoch", epoch, returnable))
                        /\ pc' = "save_model"
                        /\ UNCHANGED result
                   ELSE /\ result' = returnable
                        /\ pc' = "idle"
                        /\ UNCHANGED <<tr, trace>>
    /\ UNCHANGED <<data, rng, models, files, caller, epochs, epoch, step, mode,
                   te, ve, calls, locals, returned>>

\* save_model(epoch, train_loss, val_loss), then the rest of train()'s loop
\* body and the next iteration
SaveModel(outcome) ==
    /\ pc = "save_model"
    /\ LET saving_to == saving_path(epoch, tr.val_loss)
       IN  CASE outcome = "saved" ->
                   /\ files' = WriteFile(files, saving_to,
                                         Checkpoint(epoch, params, optim,
                                                    tr.train_loss, tr.val_loss))
                   /\ trace' = Append(trace, Event("save_model", epoch, saving_to))
                   /\ UNCHANGED failure
                   /\ IF epoch + 1 < epochs
                      THEN /\ epoch' = epoch + 1
                           /\ pc' = "train_epoch"
                           /\ step' = 0
                           /\ te' = TrainEpochEntry
                           /\ returned' = [returned EXCEPT !.train = <<>>]
                      ELSE /\ pc' = "done"
                           /\ UNCHANGED <<epoch, step, te, returned>>
             [] outcome = "raised" ->
                   /\ Raise("save_model")
                   /\ UNCHANGED <<files, trace, epoch, step, te, returned>>
             [] outcome = "raised_midway" ->
                   /\ files' = WriteFile(files, saving_to, Truncated)
                   /\ Raise("save_model")
                   /\ UNCHANGED <<trace, epoch, step, te, returned>>
    /\ UNCHANGED <<data, rng, models, caller, epochs, mode, ve, tr, result,
                   calls, locals>>

\* Where a step may raise, as the number of its calls that complete first:
\* in train_step the encoder's forward pass (a malformed batch), the second
\* backward pass, the second optimizer's step, or nowhere; in val_step the
\* encoder's forward pass or nowhere.
TrainStepRaises == {3, 9, 11, Len(TrainForwardCalls \o OptimizerCalls)}

ValStepRaises == {3, Len(ValStepCalls)}

Next ==
    \/ \E n \in 0 .. MaxEpochs : CallTrain(n)
    \/ \E md \in {"training", "inference"} : CallValEpoch(md)
    \/ \E raises \in TrainStepRaises : TrainStep(raises)
    \/ TrainEpochReturn
    \/ \E raises \in ValStepRaises : ValStep(raises)
    \/ ValEpochReturn
    \/ \E outcome \in {"saved", "raised", "raised_midway"} : SaveModel(outcome)

Spec == Init /\ [][Next]_vars

(* ----------------------------- properties ----------------------------- *)

\* the log `calls` is that of a train_step / of a val_step
IsTrainStepLog == calls # <<>> /\ calls[1].call.op = "train"

IsValStepLog == calls # <<>> /\ calls[1].call.op = "eval"

\* the last train_step ran to its return statement
TrainStepReturned == ~(pc = "failed" /\ failure.in = "train_step")

IsOptimizerCall(e) == e.call.op \in {"zero_grad", "backward", "step"}

\* the calls of the log on the losses and the optimizers, in order
OptimizerLog == SelectSeq(calls, IsOptimizerCall)

Positions(log, c) == {i \in 1 .. Len(log) : log[i].call = c}

ZeroG == [op |-> "zero_grad", on |-> "generator_optimizer", retain_graph |-> FALSE]

ZeroD == [op |-> "zero_grad", on |-> "discriminator_optimizer", retain_graph |-> FALSE]

BackG == [op |-> "backward", on |-> "generator_loss", retain_graph |-> TRUE]

BackD == [op |-> "backward", on |-> "discriminator_loss", retain_graph |-> FALSE]

StepG == [op |-> "step", on |-> "generator_optimizer", retain_graph |-> FALSE]

StepD == [op |-> "step", on |-> "discriminator_optimizer", retain_graph |-> FALSE]

\* every call at a position of P comes before every call at a position of Q
AllBefore(P, Q) == \A i \in P, j \in Q : i < j

\* C1: in every train_step the calls on the losses and the optimizers are
\* zero_grad on both optimizers, then backward of generator_loss with
\* retain_graph, then backward of discriminator_loss without it, then step on
\* both optimizers: no backward precedes a zero_grad, no step precedes a
\* backward, and each of the six calls is made exactly once per batch (at
\* most once in a step that raised).
C1_CallOrder ==
    IsTrainStepLog =>
        LET o == OptimizerLog
            zero == Positions(o, ZeroG) \cup Positions(o, ZeroD)
            back == Positions(o, BackG) \cup Positions(o, BackD)
            stp == Positions(o, StepG) \cup Positions(o, StepD)
        IN  /\ \A i \in 1 .. Len(o) :
                  o[i].call \in {ZeroG, ZeroD, BackG, BackD, StepG, StepD}
            /\ \A c \in {ZeroG, ZeroD, BackG, BackD, StepG, StepD} :
                  Cardinality(Positions(o, c)) <= 1
            /\ AllBefore(zero, back)
            /\ AllBefore(back, stp)
            /\ AllBefore(Positions(o, BackG), Positions(o, BackD))
            /\ back # {} => Cardinality(zero) = 2
            /\ stp # {} => Cardinality(back) = 2
            /\ TrainStepReturned => Len(o) = 6

\* a train_step that returned, with its six calls logged
C1_Witness ==
    /\ IsTrainStepLog
    /\ TrainStepReturned
    /\ Len(OptimizerLog) = 6
    /\ Len(returned.train) >= 1

RECURSIVE SetSum(_, _)
SetSum(f, S) ==
    IF S = {} THEN 0
    ELSE LET x == CHOOSE y \in S : TRUE IN f[x] + SetSum(f, S \ {x})

\* C2: the supervised term of discriminator_loss is the sum of the
\* per-example negative log-likelihoods of exactly the examples whose
\* label_mask is true, divided by their number; with no labeled example it is
\* exactly 0 (and no nan from a division by zero).
C2_SupervisedTerm ==
    (locals # NoValue /\ Len(locals.chunks) = 2) =>
        LET b == locals.batch
            nll == locals.losses.single_example_loss
            labeled == {i \in 1 .. Len(b) : b[i].label_mask}
            sup == locals.losses.dl_supervised
        IN  /\ Len(nll) = Len(b)
            /\ IF labeled = {} THEN sup = <<0, 1>>
               ELSE /\ sup[2] > 0
                    /\ sup[1] * Cardinality(labeled) = SetSum(nll, labeled) * sup[2]

\* a batch with a labeled and an unlabeled example whose losses differ
C2_Witness ==
    /\ locals # NoValue
    /\ Len(locals.batch) = 2
    /\ locals.batch[1].label_mask
    /\ ~locals.batch[2].label_mask
    /\ locals.losses.single_example_loss[1] # locals.losses.single_example_loss[2]
    /\ locals.losses.single_example_loss[2] # 0

\* the sum of the rationals s[i][field]
RECURSIVE RSumField(_, _)
RSumField(s, field) ==
    IF s = <<>> THEN <<0, 1>>
    ELSE RAdd(Head(s)[field], RSumField(Tail(s), field))

\* x is total / n
IsMean(x, total, n) == n > 0 /\ x[2] > 0 /\ x[1] * total[2] * n = total[1] * x[2]

\* train()'s trace holds the return of `call` for the current epoch
ReturnedThisEpoch(call) ==
    \E i \in 1 .. Len(trace) : trace[i].call = call /\ trace[i].epoch = epoch

\* C3: train_epoch returns generator_loss and discriminator_loss, and
\* val_epoch returns validation_loss, each the sum of the values the steps
\* returned divided by the number of batches iterated; every batch of the
\* loader is iterated once, a smaller last batch included.
C3_EpochMeans ==
    /\ ReturnedThisEpoch("train_epoch") =>
           LET n == Len(returned.train)
           IN  /\ n = Len(train_loader)
               /\ SumSeq([i \in 1 .. n |-> Len(train_loader[i])]) = Len(train_data)
               /\ IsMean(tr.train_loss.generator_loss,
                         RSumField(returned.train, "generator_loss"), n)
               /\ IsMean(tr.train_loss.discriminator_loss,
                         RSumField(returned.train, "discriminator_loss"), n)
    /\ ReturnedThisEpoch("val_epoch") =>
           /\ Len(returned.val) = Len(val_loader)
           /\ IsMean(tr.val_loss.validation_loss,
                     RSumField(returned.val, "validation_loss"), Len(returned.val))
    /\ result # NoValue =>
           /\ Len(returned.val) = Len(val_loader)
           /\ SumSeq([i \in 1 .. Len(val_loader) |-> Len(val_loader[i])])
                 = Len(val_data)
           /\ IsMean(result.validation_loss,
                     RSumField(returned.val, "validation_loss"), Len(returned.val))

\* an epoch of two batches, the last one smaller, with different losses
C3_Witness ==
    /\ ReturnedThisEpoch("train_epoch")
    /\ Len(returned.train) = 2
    /\ Len(train_loader[2]) < Len(train_loader[1])
    /\ returned.train[1].generator_loss # returned.train[2].generator_loss
    /\ returned.train[1].discriminator_loss # returned.train[2].discriminator_loss

\* C4: val_epoch in mode 'inference' returns predictions, ground_truths and
\* probs with one entry per validation example, in the loader's order; in any
\* other mode the result holds validation_accuracy and validation_loss only.
C4_InferenceArrays ==
    /\ result # NoValue =>
           IF mode = "inference"
           THEN /\ DOMAIN result = {"validation_accuracy", "validation_loss",
                                    "predictions", "ground_truths", "probs"}
                /\ Len(result.predictions) = Len(val_data)
                /\ Len(result.ground_truths) = Len(val_data)
                /\ Len(result.probs) = Len(val_data)
                /\ \A i \in 1 .. Len(val_data) :
                      /\ result.ground_truths[i] = val_data[i].label
                      /\ Len(result.probs[i]) = NumLabels + 1
           ELSE DOMAIN result = {"validation_accuracy", "validation_loss"}
    /\ tr.val_loss # NoValue =>
           DOMAIN tr.val_loss = {"validation_accuracy", "validation_loss"}

\* an inference over two batches, the last one smaller
C4_Witness ==
    /\ result # NoValue
    /\ mode = "inference"
    /\ Len(val_loader) = 2
    /\ Len(result.predictions) = 3

\* C5: the discriminator is run once, on 2B rows, the B encoder rows first
\* and the B generator rows last; its output splits at row B into exactly two
\* parts, the rows of the B real examples and then those of the B generated
\* ones, in order.
C5_SplitPartition ==
    locals # NoValue =>
        LET B == Len(locals.batch)
            x == locals.disciminator_input
            ch == locals.chunks
        IN  /\ B >= 1
            /\ Len(x) = 2 * B
            /\ \A i \in 1 .. B :
                  /\ x[i].origin = <<"encoder", i>>
                  /\ x[B + i].origin = <<"generator", i>>
            /\ Len(ch) = 2
            /\ Len(ch[1]) = B
            /\ Len(ch[2]) = B
            /\ \A i \in 1 .. B :
                  /\ ch[1][i].origin = <<"encoder", i>>
                  /\ ch[2][i].origin = <<"generator", i>>
            /\ IsTrainStepLog =>
                  Cardinality({i \in 1 .. Len(calls) :
                      calls[i].call.op = "forward"
                      /\ calls[i].call.on = "discriminator"}) = 1

\* a step on a batch of two examples
C5_Witness ==
    /\ locals # NoValue
    /\ Len(locals.batch) = 2
    /\ Len(locals.chunks) = 2
    /\ locals.chunks[1][2].origin = <<"encoder", 2>>
    /\ locals.chunks[2][2].origin = <<"generator", 2>>

RECURSIVE FlattenField(_, _)
FlattenField(s, field) ==
    IF s = <<>> THEN <<>> ELSE Head(s)[field] \o FlattenField(Tail(s), field)

RECURSIVE CountAgree(_, _)
CountAgree(p, g) ==
    IF p = <<>> \/ g = <<>> THEN 0
    ELSE (IF Head(p) = Head(g) THEN 1 ELSE 0) + CountAgree(Tail(p), Tail(g))

\* accuracy a is right for what the validation steps returned
AccuracyIsFraction(a) ==
    LET p == FlattenField(returned.val, "predictions")
        g == FlattenField(returned.val, "ground_truths")
        agree == CountAgree(p, g)
    IN  /\ Len(p) = Len(g)
        /\ Len(p) > 0
        /\ a[2] > 0
        /\ a[1] * Len(p) = agree * a[2]
        /\ agree = Len(p) => a = <<1, 1>>
        /\ agree = 0 => a = <<0, 1>>

\* C6: the accuracy _compute_metrics returns is the number of positions
\* where the predicted class equals the true class divided by the length:
\* 1.0 when they agree everywhere, 0.0 when they agree nowhere.
C6_Accuracy ==
    /\ result # NoValue => AccuracyIsFraction(result.validation_accuracy)
    /\ ReturnedThisEpoch("val_epoch") =>
           AccuracyIsFraction(tr.val_loss.validation_accuracy)

\* predictions that agree with the labels at some positions only
C6_Witness ==
    /\ result # NoValue
    /\ result.validation_accuracy[1] > 0
    /\ result.validation_accuracy[1] < result.validation_accuracy[2]

\* C7: a train(epochs=n) that completes has run, for e = 0 .. n-1 in order,
\* train_epoch, val_epoch and one save_model carrying the epoch's own two
\* summaries; the directory holds n checkpoints, one per epoch, each under a
\* name that contains its epoch index.
C7_OneCheckpointPerEpoch ==
    pc = "done" =>
        /\ Len(trace) = 3 * epochs
        /\ Cardinality(DOMAIN files) = epochs
        /\ \A e \in 0 .. (epochs - 1) :
              LET t == trace[3 * e + 1]
                  v == trace[3 * e + 2]
                  w == trace[3 * e + 3]
              IN  /\ t.call = "train_epoch" /\ t.epoch = e
                  /\ v.call = "val_epoch" /\ v.epoch = e
                  /\ w.call = "save_model" /\ w.epoch = e
                  /\ w.value \in DOMAIN files
                  /\ SubSeq(w.value, 4, 3 + Len(Str(e))) = Str(e)
                  /\ files[w.value].complete
                  /\ files[w.value].epoch = e
                  /\ files[w.value].train_loss = t.value
                  /\ files[w.value].val_los = v.value

\* a completed run of two epochs
C7_Witness ==
    /\ pc = "done"
    /\ epochs = 2
    /\ Cardinality(DOMAIN files) = 2
    /\ trace[1].value # trace[4].value

Complete(fs) == {f \in DOMAIN fs : fs[f].complete}

\* C8: a call that raises during epoch e of train() leaves train(): nothing
\* runs after it, no checkpoint of epoch e or later is there (after a failed
\* step or epoch function, no file of epoch e at all), and the checkpoints of
\* the epochs before e are as they were written.
C8_FailurePropagates ==
    failure # NoValue =>
        /\ pc = "failed"
        /\ failure.caller = "train" =>
              LET e == failure.epoch
              IN  /\ e = epoch
                  /\ Cardinality(Complete(files)) = e
                  /\ failure.in # "save_model" => Complete(files) = DOMAIN files
                  /\ Cardinality(DOMAIN files) <= e + 1
                  /\ \A i \in 1 .. Len(trace) : trace[i].epoch <= e
                  /\ \A i \in 1 .. Len(trace) :
                        trace[i].call = "save_model" => trace[i].epoch < e
                  /\ \A d \in 0 .. (e - 1) :
                        LET w == trace[3 * d + 3]
                        IN  /\ w.call = "save_model" /\ w.epoch = d
                            /\ w.value \in Complete(files)
                            /\ files[w.value].epoch = d
                            /\ files[w.value].train_loss = trace[3 * d + 1].value
                            /\ files[w.value].val_los = trace[3 * d + 2].value

\* a train_step that raised in the second epoch
C8_Witness ==
    /\ failure # NoValue
    /\ failure.in = "train_step"
    /\ failure.caller = "train"
    /\ failure.epoch = 1
    /\ Cardinality(DOMAIN files) = 1

\* C9: validation changes no parameter, no gradient and no optimizer state:
\* a val_step calls no zero_grad, backward or step and not the generator; all
\* that val_step and val_epoch change of the Trainer is the three models'
\* mode, which a val_step leaves at evaluation.
C9_ValidationFrame ==
    [][(pc = "val_epoch" \/ (pc = "idle" /\ pc' = "val_epoch")) =>
          /\ params' = params
          /\ grad' = grad
          /\ optim' = optim
          /\ rng' = rng
          /\ files' = files
          /\ \A mo \in Models : training'[mo] = training[mo] \/ ~training'[mo]
          /\ step' = step + 1 => \A mo \in Models : ~training'[mo]
          /\ calls' # calls =>
                \A i \in 1 .. Len(calls') :
                   /\ calls'[i].call.op \in {"eval", "forward"}
                   /\ calls'[i].call.op = "forward" =>
                         calls'[i].call.on \in {"encoder", "discriminator"}]_vars

\* a val_step made after training has changed the parameters and left
\* gradients on them
C9_Witness ==
    /\ pc = "val_epoch"
    /\ step >= 1
    /\ IsValStepLog
    /\ params["encoder"] >= 1
    /\ grad["encoder"] # NoGrad
    /\ \A mo \in Models : ~training[mo]

BothLosses == [generator_loss |-> 1, discriminator_loss |-> 1]

\* the parameters after call i of the log
ParamsAfter(i) == IF i < Len(calls) THEN calls[i + 1].params ELSE params

\* C10: gradients are zeroed before the first backward only; when
\* generator_optimizer.step() runs, the generator's parameters hold the
\* accumulated gradient of both losses, and when
\* discriminator_optimizer.step() runs so do the encoder's and the
\* discriminator's; each step changes its own optimizer's parameters only.
C10_AccumulatedGradients ==
    IsTrainStepLog =>
        \A i \in 1 .. Len(calls) :
           LET c == calls[i]
           IN  /\ c.call.op = "zero_grad" =>
                     \A j \in 1 .. (i - 1) : calls[j].call.op \notin {"backward", "step"}
               /\ c.call = StepG =>
                     /\ c.grad["generator"] = BothLosses
                     /\ ParamsAfter(i)["generator"] # c.params["generator"]
                     /\ ParamsAfter(i)["encoder"] = c.params["encoder"]
                     /\ ParamsAfter(i)["discriminator"] = c.params["discriminator"]
               /\ c.call = StepD =>
                     /\ c.grad["encoder"] = BothLosses
                     /\ c.grad["discriminator"] = BothLosses
                     /\ ParamsAfter(i)["encoder"] # c.params["encoder"]
                     /\ ParamsAfter(i)["discriminator"] # c.params["discriminator"]
                     /\ ParamsAfter(i)["generator"] = c.params["generator"]

\* a train_step whose two optimizer steps have run
C10_Witness ==
    /\ IsTrainStepLog
    /\ Len(calls) = 12
    /\ calls[11].call = StepG
    /\ calls[12].call = StepD
    /\ calls[12].grad["encoder"] = BothLosses
    /\ params["encoder"] = calls[12].params["encoder"] + 1

====
